---- MODULE Spec2Model ----
(***************************************************************************)
(* Model of opaque_keys/edx/locator.py: the course, block-usage and asset  *)
(* locators, their canonical and deprecated string forms, and the derived  *)
(* operations that rebuild one locator from another.                       *)
(*                                                                         *)
(* Python values are records [ty, v]: ty is the Python type, v a sequence  *)
(* of one-character strings (the text of a str, the lower-case hex digits  *)
(* of an ObjectId, the block_id of a LocalId).  A call returns a record    *)
(* [exc, val]: exc is "" on a normal return and the exception class when   *)
(* the call raises.                                                        *)
(***************************************************************************)
EXTENDS Naturals, Sequences, FiniteSets, TLC

VARIABLES op, arg, obj, text, ret

vars == <<op, arg, obj, text, ret>>

-----------------------------------------------------------------------------
(* Characters *)

Lowercase ==
  {"a","b","c","d","e","f","g","h","i","j","k","l","m",
   "n","o","p","q","r","s","t","u","v","w","x","y","z"}

Uppercase == {"A","B","C","D","E","F","N","X"}

Digits == {"0","1","2","3","4","5","6","7","8","9"}

\* \w under re.UNICODE, restricted to the characters of the model
WordChars == Lowercase \cup Uppercase \cup Digits \cup {"_"}

\* every character a modelled string may hold
Alphabet == WordChars \cup {"-", "~", ".", ":", "%", "+", "/", "@", " ", "\n"}

\* what re.IGNORECASE compares: the lower-case form of a character
LowerOf(ch) ==
  CASE ch = "A" -> "a" [] ch = "B" -> "b" [] ch = "C" -> "c"
    [] ch = "D" -> "d" [] ch = "E" -> "e" [] ch = "F" -> "f"
    [] ch = "N" -> "n" [] ch = "X" -> "x"
    [] OTHER -> ch

LowerStr(s) == [i \in 1..Len(s) |-> LowerOf(s[i])]

\* [A-F0-9] under re.IGNORECASE; also the digits bson's ObjectId accepts
HexChars == Digits \cup {"a","b","c","d","e","f","A","B","C","D","E","F"}

ALLOWED_ID_CHARS == WordChars \cup {"-", "~", ".", ":"}

DEPRECATED_ALLOWED_ID_CHARS == WordChars \cup {"-", "~", ".", ":", "%"}

\* the complement class [^\w.%-]
INVALID_CHARS_DEPRECATED == Alphabet \ (WordChars \cup {".", "%", "-"})

-----------------------------------------------------------------------------
(* Python values and call results *)

PyNone == [ty |-> "NoneType", v |-> <<>>]

PyStr(s) == [ty |-> "str", v |-> s]

ObjectId(hex) == [ty |-> "ObjectId", v |-> hex]

LocalId(block_id) == [ty |-> "LocalId", v |-> block_id]

IsNone(x) == x.ty = "NoneType"

\* Python truth value: None and '' are false, every other value here is true
Truthy(x) == ~IsNone(x) /\ ~(x.ty = "str" /\ x.v = <<>>)

Return(val) == [exc |-> "", val |-> val]

Raise(cls) == [exc |-> cls, val |-> PyNone]

Raised(r) == r.exc # ""

\* LocalId.__str__
LocalId_str(x) == <<"l","o","c","a","l","i","d","_">> \o x.v

\* unicode(x) / "{}".format(x)
Format(x) ==
  CASE x.ty = "NoneType" -> <<"N","o","n","e">>
    [] x.ty = "LocalId" -> LocalId_str(x)
    [] OTHER -> x.v

\* as_object_id raising InvalidKeyError where the code raises ValueError
as_object_id_invalid_key(value) ==
  CASE value.ty = "ObjectId" -> Return(value)
    [] value.ty = "str" ->
         IF Len(value.v) = 24 /\ \A i \in 1..Len(value.v) : value.v[i] \in HexChars
         THEN Return(ObjectId(LowerStr(value.v)))
         ELSE Raise("InvalidKeyError")
    [] OTHER -> Raise("TypeError")

\* Locator.as_object_id: ObjectId(value), InvalidId turned into ValueError
as_object_id(value) ==
  CASE value.ty = "ObjectId" -> Return(value)
    [] value.ty = "str" ->
         IF Len(value.v) = 24 /\ \A i \in 1..Len(value.v) : value.v[i] \in HexChars
         THEN Return(ObjectId(LowerStr(value.v)))
         ELSE Raise("ValueError")
    [] OTHER -> Raise("TypeError")

-----------------------------------------------------------------------------
(* Regular expressions, matched as Python's backtracking matcher does:     *)
(* Match yields the match states in the order the matcher tries them.      *)

Lit(s) == [t |-> "lit", s |-> s, ic |-> FALSE]

\* a literal under re.IGNORECASE
LitI(s) == [t |-> "lit", s |-> s, ic |-> TRUE]

\* cls+ (greedy)
Plus(cls) == [t |-> "plus", cls |-> cls]

\* (r)? (greedy)
Opt(r) == [t |-> "opt", r |-> r]

\* (r)?? (lazy)
OptLazy(r) == [t |-> "optlazy", r |-> r]

\* (?P<name>r)
Group(name, r) == [t |-> "group", name |-> name, r |-> r]

\* r1|r2
Alt(r1, r2) == [t |-> "alt", a |-> r1, b |-> r2]

Cat(rs) == [t |-> "cat", rs |-> rs]

\* $
End == [t |-> "end"]

\* number of characters of s from position p on that belong to cls
RECURSIVE RunLen(_, _, _)
RunLen(cls, s, p) ==
  IF p <= Len(s) /\ s[p] \in cls THEN 1 + RunLen(cls, s, p + 1) ELSE 0

LitAt(re, s, p) ==
  /\ p + Len(re.s) - 1 <= Len(s)
  /\ \A i \in 1..Len(re.s) :
       (IF re.ic THEN LowerOf(s[p + i - 1]) ELSE s[p + i - 1]) = re.s[i]

RECURSIVE Match(_, _, _)
RECURSIVE MatchAll(_, _, _, _)
RECURSIVE MatchCat(_, _, _, _)

\* the states reached from state st by matching re, first choice first
Match(re, s, st) ==
  CASE re.t = "lit" ->
         IF LitAt(re, s, st.pos) THEN <<[st EXCEPT !.pos = @ + Len(re.s)]>> ELSE <<>>
    [] re.t = "plus" ->
         LET n == RunLen(re.cls, s, st.pos)
         IN  [k \in 1..n |-> [st EXCEPT !.pos = @ + (n + 1 - k)]]
    [] re.t = "opt" -> Match(re.r, s, st) \o <<st>>
    [] re.t = "optlazy" -> <<st>> \o Match(re.r, s, st)
    [] re.t = "alt" -> Match(re.a, s, st) \o Match(re.b, s, st)
    [] re.t = "group" ->
         LET inner == Match(re.r, s, st)
         IN  [k \in 1..Len(inner) |->
                [inner[k] EXCEPT !.caps[re.name] =
                   PyStr(SubSeq(s, st.pos, inner[k].pos - 1))]]
    [] re.t = "cat" -> MatchCat(re.rs, 1, s, <<st>>)
    [] re.t = "end" ->
         IF st.pos = Len(s) + 1 \/ (st.pos = Len(s) /\ s[st.pos] = "\n")
         THEN <<st>> ELSE <<>>

\* Match from each state of sts in turn
MatchAll(re, s, sts, k) ==
  IF k > Len(sts) THEN <<>>
  ELSE Match(re, s, sts[k]) \o MatchAll(re, s, sts, k + 1)

MatchCat(rs, i, s, sts) ==
  IF i > Len(rs) \/ sts = <<>> THEN sts
  ELSE MatchCat(rs, i + 1, s, MatchAll(rs[i], s, sts, 1))

\* pattern.match(string) on a str: the groupdict of the first match, or None
re_match_str(re, names, s) ==
  LET found == Match(re, s, [pos |-> 1, caps |-> [n \in names |-> PyNone]])
  IN  IF found = <<>> THEN [matched |-> FALSE, groups |-> [n \in names |-> PyNone]]
      ELSE [matched |-> TRUE, groups |-> found[1].caps]

\* pattern.search(string) for a one-character class: some character is in cls
re_search_cls(cls, s) == \E i \in 1..Len(s) : s[i] \in cls

-----------------------------------------------------------------------------
(* BlockLocatorBase *)

S_branch == <<"b","r","a","n","c","h">>
S_version == <<"v","e","r","s","i","o","n">>
S_type == <<"t","y","p","e">>
S_block == <<"b","l","o","c","k">>
S_plus == <<"+">>

ALLOWED_ID_RE == Cat(<<Plus(ALLOWED_ID_CHARS), End>>)

DEPRECATED_ALLOWED_ID_RE == Cat(<<Plus(DEPRECATED_ALLOWED_ID_CHARS), End>>)

URL_GROUPS == {"org", "course", "run", "branch", "version_guid", "block_type", "block_id"}

URL_RE ==
  Cat(<<
    OptLazy(Cat(<<Group("org", Plus(ALLOWED_ID_CHARS)), LitI(S_plus),
                  Group("course", Plus(ALLOWED_ID_CHARS)), LitI(S_plus),
                  Group("run", Plus(ALLOWED_ID_CHARS)), Opt(LitI(S_plus))>>)),
    Opt(Cat(<<LitI(S_branch), LitI(S_plus),
              Group("branch", Plus(ALLOWED_ID_CHARS)), Opt(LitI(S_plus))>>)),
    Opt(Cat(<<LitI(S_version), LitI(S_plus),
              Group("version_guid", Plus(HexChars)), Opt(LitI(S_plus))>>)),
    Opt(Cat(<<LitI(S_type), LitI(S_plus),
              Group("block_type", Plus(ALLOWED_ID_CHARS)), Opt(LitI(S_plus))>>)),
    Opt(Cat(<<LitI(S_block), LitI(S_plus),
              Group("block_id", Plus(ALLOWED_ID_CHARS))>>)),
    End>>)

\* pattern.match(x) is truthy; None when x is no str (the caller sees TypeError)
Matches(re, x) == re_match_str(re, {}, x.v).matched

\* BlockLocatorBase.parse_url
parse_url(string) ==
  LET m == re_match_str(URL_RE, URL_GROUPS, string)
  IN  IF ~m.matched THEN Raise("InvalidKeyError")
      ELSE [exc |-> "", val |-> PyNone, groups |-> m.groups]

-----------------------------------------------------------------------------
(* CourseLocator *)

CourseKey(org, course, run, branch, version_guid, deprecated) ==
  [cls |-> "CourseLocator", org |-> org, course |-> course, run |-> run,
   branch |-> branch, version_guid |-> version_guid, deprecated |-> deprecated]

IsCourseKey(x) == "cls" \in DOMAIN x /\ x.cls = "CourseLocator"

\* CourseLocator._check_location_part: "" or the exception it raises
check_location_part(val, invalid) ==
  IF IsNone(val) THEN ""
  ELSE IF val.ty # "str" THEN "InvalidKeyError"
  ELSE IF re_search_cls(invalid, val.v) THEN "InvalidKeyError"
  ELSE ""

\* for part in (org, course, run): self._check_location_part(part, ...)
RECURSIVE check_location_parts(_, _)
check_location_parts(parts, i) ==
  IF i > Len(parts) THEN ""
  ELSE IF check_location_part(parts[i], INVALID_CHARS_DEPRECATED) # ""
       THEN check_location_part(parts[i], INVALID_CHARS_DEPRECATED)
       ELSE check_location_parts(parts, i + 1)

\* all(regexp.match(field) for field in fields), or with none_ok
\* all(field is None or regexp.match(field) ...): "all", "notall", or
\* "TypeError" when match() is handed a value that is no string
RECURSIVE all_match(_, _, _, _)
all_match(regexp, fields, none_ok, i) ==
  IF i > Len(fields) THEN "all"
  ELSE IF none_ok /\ IsNone(fields[i]) THEN all_match(regexp, fields, none_ok, i + 1)
  ELSE IF fields[i].ty # "str" THEN "TypeError"
  ELSE IF ~Matches(regexp, fields[i]) THEN "notall"
  ELSE all_match(regexp, fields, none_ok, i + 1)

\* the deprecated branch of CourseLocator.__init__, up to the super() call
init_deprecated_checks(org, course, run, branch) ==
  LET fields == <<org, course>>
                \o (IF IsNone(run) THEN <<>> ELSE <<run>>)
                \o (IF IsNone(branch) THEN <<>> ELSE <<branch>>)
      parts == check_location_parts(<<org, course, run>>, 1)
      every == all_match(DEPRECATED_ALLOWED_ID_RE, fields, FALSE, 1)
  IN  IF parts # "" THEN parts
      ELSE IF every = "TypeError" THEN "TypeError"
      ELSE IF every = "notall" THEN "InvalidKeyError"
      ELSE ""

\* CourseLocator.__init__
CourseLocator_init(org, course, run, branch, version_guid, deprecated) ==
  IF deprecated
  THEN LET chk == init_deprecated_checks(org, course, run, branch)
       IN  IF chk # "" THEN Raise(chk)
           ELSE IF IsNone(org) \/ IsNone(course) THEN Raise("InvalidKeyError")
           ELSE Return(CourseKey(org, course, run, branch, version_guid, TRUE))
  ELSE LET oid == IF Truthy(version_guid) THEN as_object_id(version_guid)
                  ELSE Return(version_guid)
           every == all_match(ALLOWED_ID_RE, <<org, course, run, branch>>, TRUE, 1)
       IN  IF Raised(oid) THEN oid
           ELSE IF every = "TypeError" THEN Raise("TypeError")
           ELSE IF every = "notall" THEN Raise("InvalidKeyError")
           ELSE IF IsNone(oid.val) /\ (IsNone(org) \/ IsNone(course) \/ IsNone(run))
                THEN Raise("InvalidKeyError")
           ELSE Return(CourseKey(org, course, run, branch, oid.val, FALSE))

\* u"+".join(parts) and u"/".join(parts) on sequences of character sequences
RECURSIVE Join(_, _)
Join(sep, parts) ==
  IF parts = <<>> THEN <<>>
  ELSE IF Len(parts) = 1 THEN parts[1]
  ELSE parts[1] \o sep \o Join(sep, Tail(parts))

\* BlockLocatorBase.package_id
package_id(self) ==
  IF Truthy(self.org) /\ Truthy(self.course) /\ Truthy(self.run)
  THEN PyStr(Join(S_plus, <<self.org.v, self.course.v, self.run.v>>))
  ELSE PyNone

\* CourseLocator._to_string
CourseLocator_to_string(self) ==
  LET pkg == IF Truthy(self.course) /\ Truthy(self.run)
             THEN <<Format(package_id(self))>>
                  \o (IF Truthy(self.branch)
                      THEN <<S_branch \o S_plus \o Format(self.branch)>> ELSE <<>>)
             ELSE <<>>
      ver == IF Truthy(self.version_guid)
             THEN <<S_version \o S_plus \o Format(self.version_guid)>> ELSE <<>>
  IN  Join(S_plus, pkg \o ver)

\* CourseLocator._from_string
CourseLocator_from_string(serialized) ==
  LET parse == parse_url(serialized)
  IN  IF Raised(parse) THEN Raise(parse.exc)
      ELSE LET g == parse.groups
               oid == IF Truthy(g["version_guid"]) THEN as_object_id(g["version_guid"])
                      ELSE Return(g["version_guid"])
           IN  IF Raised(oid) THEN oid
               ELSE CourseLocator_init(g["org"], g["course"], g["run"], g["branch"],
                                       oid.val, FALSE)

\* version_agnostic that forgets to clear the version
version_agnostic_keeps_version(self) ==
  CourseLocator_init(self.org, self.course, self.run, self.branch, self.version_guid, FALSE)

\* CourseLocator.version_agnostic
version_agnostic(self) ==
  CourseLocator_init(self.org, self.course, self.run, self.branch, PyNone, FALSE)

\* CourseLocator.course_agnostic
course_agnostic(self) ==
  CourseLocator_init(PyNone, PyNone, PyNone, PyNone, self.version_guid, FALSE)

\* for_branch that copies the version instead of clearing it
for_branch_keeps_version(self, branch) ==
  IF IsNone(self.org) THEN Raise("InvalidKeyError")
  ELSE CourseLocator_init(self.org, self.course, self.run, branch, self.version_guid, FALSE)

\* CourseLocator.for_branch
for_branch(self, branch) ==
  IF IsNone(self.org) THEN Raise("InvalidKeyError")
  ELSE CourseLocator_init(self.org, self.course, self.run, branch, PyNone, FALSE)

\* CourseLocator.for_version
for_version(self, version_guid) ==
  CourseLocator_init(self.org, self.course, self.run, self.branch, version_guid, FALSE)

\* str.count(sub) for a one-character sub
RECURSIVE Count(_, _)
Count(s, ch) ==
  IF s = <<>> THEN 0 ELSE (IF Head(s) = ch THEN 1 ELSE 0) + Count(Tail(s), ch)

\* str.split(sep) for a one-character sep
RECURSIVE Split(_, _)
Split(s, ch) ==
  LET n == RunLen(Alphabet \ {ch}, s, 1)
  IN  IF n = Len(s) THEN <<s>>
      ELSE <<SubSeq(s, 1, n)>> \o Split(SubSeq(s, n + 2, Len(s)), ch)

\* CourseLocator._to_deprecated_string: u'/'.join of a None raises TypeError
CourseLocator_to_deprecated_string(self) ==
  IF \E f \in {self.org, self.course, self.run} : f.ty # "str" THEN Raise("TypeError")
  ELSE Return(PyStr(Join(<<"/">>, <<self.org.v, self.course.v, self.run.v>>)))

\* CourseLocator._from_deprecated_string
CourseLocator_from_deprecated_string(serialized) ==
  IF Count(serialized, "/") # 2 THEN Raise("InvalidKeyError")
  ELSE LET p == Split(serialized, "/")
       IN  CourseLocator_init(PyStr(p[1]), PyStr(p[2]), PyStr(p[3]), PyNone, PyNone, TRUE)

-----------------------------------------------------------------------------
(* BlockUsageLocator and AssetLocator *)

UsageKey(cls, course_key, block_type, block_id, deprecated) ==
  [cls |-> cls, course_key |-> course_key, block_type |-> block_type,
   block_id |-> block_id, deprecated |-> deprecated]

IsUsageKey(x) == "cls" \in DOMAIN x /\ x.cls \in {"BlockUsageLocator", "AssetLocator"}

\* BlockUsageLocator._parse_block_ref: both match() calls run before the test
parse_block_ref(block_ref, deprecated) ==
  IF block_ref.ty # "str" THEN Raise("TypeError")
  ELSE LET is_local_id == block_ref.ty = "LocalId"
           is_valid_deprecated == deprecated /\ Matches(DEPRECATED_ALLOWED_ID_RE, block_ref)
           is_valid == Matches(ALLOWED_ID_RE, block_ref)
       IN  IF is_local_id \/ is_valid \/ is_valid_deprecated THEN Return(block_ref)
           ELSE Raise("InvalidKeyError")

\* BlockUsageLocator.__init__ (AssetLocator inherits it)
BlockUsageLocator_init(cls, course_key, block_type, block_id, deprecated) ==
  LET ref == parse_block_ref(block_id, deprecated)
  IN  IF Raised(ref) THEN ref
      ELSE IF IsNone(ref.val) THEN Raise("InvalidKeyError")
      ELSE Return(UsageKey(cls, course_key, block_type, ref.val, deprecated))

\* BlockUsageLocator._to_string
BlockUsageLocator_to_string(self) ==
  CourseLocator_to_string(self.course_key) \o S_plus \o S_type \o S_plus
    \o Format(self.block_type) \o S_plus \o S_block \o S_plus \o Format(self.block_id)

\* BlockUsageLocator._from_string
BlockUsageLocator_from_string(cls, serialized) ==
  LET course_key == CourseLocator_from_string(serialized)
  IN  IF Raised(course_key) THEN course_key
      ELSE LET parsed_parts == parse_url(serialized).groups
           IN  IF IsNone(parsed_parts["block_id"]) THEN Raise("InvalidKeyError")
               ELSE BlockUsageLocator_init(cls, course_key.val, parsed_parts["block_type"],
                                           parsed_parts["block_id"], FALSE)

\* BlockUsageLocator(course_key, block_type=self.block_type, block_id=self.block_id)
\* over the outcome of a derivation of self.course_key
rebuild_usage(course_key, self) ==
  IF Raised(course_key) THEN course_key
  ELSE BlockUsageLocator_init("BlockUsageLocator", course_key.val, self.block_type,
                              self.block_id, FALSE)

\* BlockUsageLocator.version_agnostic
BlockUsageLocator_version_agnostic(self) ==
  rebuild_usage(version_agnostic(self.course_key), self)

\* BlockUsageLocator.course_agnostic
BlockUsageLocator_course_agnostic(self) ==
  rebuild_usage(course_agnostic(self.course_key), self)

\* BlockUsageLocator.for_branch
BlockUsageLocator_for_branch(self, branch) ==
  rebuild_usage(for_branch(self.course_key, branch), self)

\* BlockUsageLocator.for_version
BlockUsageLocator_for_version(self, version_guid) ==
  rebuild_usage(for_version(self.course_key, version_guid), self)

\* the complement class [^\w.%-]
DEPRECATED_INVALID_CHARS == Alphabet \ (WordChars \cup {".", "%", "-"})

\* the complement class [^\w.:%-]
DEPRECATED_INVALID_CHARS_NAME == Alphabet \ (WordChars \cup {".", ":", "%", "-"})

\* the complement class [^\w-]
DEPRECATED_INVALID_HTML_CHARS == Alphabet \ (WordChars \cup {"-"})

\* a substitution that replaces the first character of cls only
RECURSIVE re_sub_cls_first_only(_, _, _)
re_sub_cls_first_only(cls, repl, s) ==
  IF s = <<>> THEN <<>>
  ELSE IF Head(s) \in cls THEN repl \o Tail(s)
  ELSE <<Head(s)>> \o re_sub_cls_first_only(cls, repl, Tail(s))

\* pattern.sub(repl, s) for a one-character class: every character of cls
\* is replaced by repl
RECURSIVE re_sub_cls(_, _, _)
re_sub_cls(cls, repl, s) ==
  IF s = <<>> THEN <<>>
  ELSE (IF Head(s) \in cls THEN repl ELSE <<Head(s)>>) \o re_sub_cls(cls, repl, Tail(s))

\* re.sub('_+', '_', s): every run of underscores becomes one underscore
RECURSIVE re_sub_underscores(_)
re_sub_underscores(s) ==
  IF Len(s) < 2 THEN s
  ELSE IF s[1] = "_" /\ s[2] = "_" THEN re_sub_underscores(Tail(s))
  ELSE <<Head(s)>> \o re_sub_underscores(Tail(s))

\* BlockUsageLocator._clean
clean_invalid(value, invalid) == re_sub_underscores(re_sub_cls(invalid, <<"_">>, value))

\* BlockUsageLocator.clean
clean(value) == clean_invalid(value, DEPRECATED_INVALID_CHARS)

\* BlockUsageLocator.clean_keeping_underscores
clean_keeping_underscores(value) == re_sub_cls(DEPRECATED_INVALID_CHARS, <<"_">>, value)

\* BlockUsageLocator.clean_for_url_name
clean_for_url_name(value) == clean_invalid(value, DEPRECATED_INVALID_CHARS_NAME)

\* BlockUsageLocator.clean_for_html
clean_for_html(value) == clean_invalid(value, DEPRECATED_INVALID_HTML_CHARS)

CleanNames == {"clean", "clean_keeping_underscores", "clean_for_url_name", "clean_for_html"}

\* the cleaning utility of the given name, applied to value
clean_by_name(name, value) ==
  CASE name = "clean" -> clean(value)
    [] name = "clean_keeping_underscores" -> clean_keeping_underscores(value)
    [] name = "clean_for_url_name" -> clean_for_url_name(value)
    [] name = "clean_for_html" -> clean_for_html(value)

\* the class of characters the utility of the given name replaces
invalid_by_name(name) ==
  CASE name \in {"clean", "clean_keeping_underscores"} -> DEPRECATED_INVALID_CHARS
    [] name = "clean_for_url_name" -> DEPRECATED_INVALID_CHARS_NAME
    [] name = "clean_for_html" -> DEPRECATED_INVALID_HTML_CHARS

DEPRECATED_GROUPS == {"org", "course", "category", "name", "revision"}

NotSlash == Alphabet \ {"/"}

\* org/course/category/name[@revision], shared by the two deprecated grammars
DEPRECATED_TAIL(ic) ==
  LET lit(x) == [t |-> "lit", s |-> x, ic |-> ic]
  IN  <<Group("org", Plus(NotSlash)), lit(<<"/">>),
        Group("course", Plus(NotSlash)), lit(<<"/">>),
        Group("category", Plus(NotSlash)), lit(<<"/">>),
        Group("name", Plus(Alphabet \ {"@"})),
        Opt(Cat(<<lit(<<"@">>), Group("revision", Plus(NotSlash))>>))>>

DEPRECATED_URL_RE ==
  Cat(<<Alt(Cat(<<Plus(Alphabet \ {":", "/"}), Lit(<<":", "/">>), Opt(Lit(<<"/">>))>>),
            Cat(<<Lit(<<"/">>), Plus(NotSlash)>>))>>
      \o DEPRECATED_TAIL(FALSE))

ASSET_URL_RE ==
  Cat(<<Opt(LitI(<<"/">>)), LitI(<<"c","4","x","/">>)>> \o DEPRECATED_TAIL(TRUE))

DEPRECATED_TAG(cls) ==
  IF cls = "AssetLocator" THEN <<"c","4","x">> ELSE <<"i","4","x">>

\* a legacy rendering that leaves out the @revision suffix
to_deprecated_string_without_revision(self) ==
  LET lead == IF self.cls = "AssetLocator" THEN <<"/">> \o DEPRECATED_TAG(self.cls) \o <<"/">>
              ELSE DEPRECATED_TAG(self.cls) \o <<":", "/", "/">>
  IN  lead \o Format(self.course_key.org) \o <<"/">>
        \o Format(self.course_key.course) \o <<"/">>
        \o Format(self.block_type) \o <<"/">> \o Format(self.block_id)

\* BlockUsageLocator._to_deprecated_string and AssetLocator._to_deprecated_string
to_deprecated_string(self) ==
  LET lead == IF self.cls = "AssetLocator" THEN <<"/">> \o DEPRECATED_TAG(self.cls) \o <<"/">>
              ELSE DEPRECATED_TAG(self.cls) \o <<":", "/", "/">>
      url == lead \o Format(self.course_key.org) \o <<"/">>
               \o Format(self.course_key.course) \o <<"/">>
               \o Format(self.block_type) \o <<"/">> \o Format(self.block_id)
  IN  IF Truthy(self.course_key.branch)
      THEN url \o <<"@">> \o Format(self.course_key.branch) ELSE url

\* BlockUsageLocator._from_deprecated_string and AssetLocator._from_deprecated_string
from_deprecated_string(cls, serialized) ==
  LET m == re_match_str(IF cls = "AssetLocator" THEN ASSET_URL_RE ELSE DEPRECATED_URL_RE,
                        DEPRECATED_GROUPS, serialized)
      groups == m.groups
      course_key == CourseLocator_init(groups["org"], groups["course"], PyNone,
                                       groups["revision"], PyNone, TRUE)
  IN  IF ~m.matched THEN Raise("InvalidKeyError")
      ELSE IF Raised(course_key) THEN course_key
      ELSE BlockUsageLocator_init(cls, course_key.val, groups["category"],
                                  groups["name"], TRUE)

-----------------------------------------------------------------------------
(* DefinitionLocator *)

DefinitionKey(definition_id, block_type) ==
  [cls |-> "DefinitionLocator", definition_id |-> definition_id,
   block_type |-> block_type]

IsDefinitionKey(x) == "cls" \in DOMAIN x /\ x.cls = "DefinitionLocator"

\* DefinitionLocator.__init__: the if/elif chain has no else, so for any
\* other type super().__init__ is not called and the instance is returned
\* with the class attributes definition_id = None and block_type = None
DefinitionLocator_init(block_type, definition_id) ==
  CASE definition_id.ty = "LocalId" -> Return(DefinitionKey(definition_id, block_type))
    [] definition_id.ty = "str" ->
         LET oid == as_object_id(definition_id)
         IN  IF oid.exc = "ValueError" THEN Raise("InvalidKeyError")
             ELSE IF Raised(oid) THEN oid
             ELSE Return(DefinitionKey(oid.val, block_type))
    [] definition_id.ty = "ObjectId" -> Return(DefinitionKey(definition_id, block_type))
    [] OTHER -> Return(DefinitionKey(PyNone, PyNone))

DEFINITION_GROUPS == {"definition_id", "block_type"}

\* DefinitionLocator.URL_RE
DefinitionLocator_URL_RE ==
  Cat(<<Group("definition_id", Plus(HexChars)), LitI(S_plus), LitI(S_type), LitI(S_plus),
        Group("block_type", Plus(ALLOWED_ID_CHARS)), End>>)

\* DefinitionLocator._from_string
DefinitionLocator_from_string(serialized) ==
  LET parse == re_match_str(DefinitionLocator_URL_RE, DEFINITION_GROUPS, serialized)
  IN  IF ~parse.matched THEN Raise("InvalidKeyError")
      ELSE LET g == parse.groups
               oid == IF Truthy(g["definition_id"]) THEN as_object_id(g["definition_id"])
                      ELSE Return(g["definition_id"])
           IN  IF Raised(oid) THEN oid
               ELSE DefinitionLocator_init(g["block_type"], oid.val)

-----------------------------------------------------------------------------
(* VersionTree *)

\* isinstance(locator, Locator)
IsLocator(x) == IsCourseKey(x) \/ IsUsageKey(x) \/ IsDefinitionKey(x)

\* locator.version(): CourseLocator.version, BlockUsageLocator.version,
\* DefinitionLocator.version
version(locator) ==
  CASE IsCourseKey(locator) -> locator.version_guid
    [] IsUsageKey(locator) -> locator.course_key.version_guid
    [] IsDefinitionKey(locator) -> locator.definition_id

\* a dict whose items are the pairs of the function m
PyDict(m) == [ty |-> "dict", m |-> m]

\* tree_dict.get(key, [])
dict_get(tree_dict, key) ==
  IF key \in DOMAIN tree_dict.m THEN tree_dict.m[key] ELSE <<>>

\* depth of nested calls at which the interpreter raises RecursionError
RecursionLimit == 3

\* the exception of the first element of built that raised, "" when none did
RECURSIVE first_raised(_, _)
first_raised(built, i) ==
  IF i > Len(built) THEN ""
  ELSE IF Raised(built[i]) THEN built[i].exc
  ELSE first_raised(built, i + 1)

\* a tree that leaves out the children
VersionTree_without_children(locator, tree_dict, depth) ==
  IF ~IsLocator(locator) THEN Raise("TypeError")
  ELSE IF ~Truthy(version(locator)) THEN Raise("ValueError")
  ELSE Return([locator |-> locator, children |-> <<>>])

\* VersionTree.__init__, depth the number of calls it is nested in
RECURSIVE VersionTree_init(_, _, _)
VersionTree_init(locator, tree_dict, depth) ==
  IF depth > RecursionLimit THEN Raise("RecursionError")
  ELSE IF ~IsLocator(locator) THEN Raise("TypeError")
  ELSE IF ~Truthy(version(locator)) THEN Raise("ValueError")
  ELSE IF IsNone(tree_dict) THEN Return([locator |-> locator, children |-> <<>>])
  ELSE LET kids == dict_get(tree_dict, version(locator))
           built == [i \in 1..Len(kids) |->
                       VersionTree_init(kids[i], tree_dict, depth + 1)]
           exc == first_raised(built, 1)
       IN  IF exc # "" THEN Raise(exc)
           ELSE Return([locator |-> locator,
                        children |-> [i \in 1..Len(kids) |-> built[i].val]])

-----------------------------------------------------------------------------
(* The calls a client makes.  obj is the locator the client holds, op and  *)
(* arg the last call and its arguments, text the string that call          *)
(* rendered, ret what it returned or raised.                               *)

\* number of tokens of TokenPool the calls draw their string arguments from
NumTokens == 3

TokenPool ==
  << <<"o">>, <<"a","%">>, <<"~">>, <<"r","\n">>, S_version >>

Tokens ==
  {PyStr(TokenPool[i]) : i \in {j \in 1..Len(TokenPool) : j <= NumTokens}}

FieldIn == Tokens \cup {PyNone}

\* the version of the CourseLocator docstring
V_HEX ==
  <<"5","1","9","6","6","5","f","6","2","2","3","e",
    "b","d","6","9","8","0","8","8","4","f","2","b">>

V_UPPER ==
  <<"5","1","9","6","6","5","F","6","2","2","3","E",
    "B","D","6","9","8","0","8","8","4","F","2","B">>

VersionIn ==
  {PyNone, PyStr(<<>>), PyStr(V_HEX), PyStr(V_UPPER), PyStr(<<"x","y","z">>),
   ObjectId(V_HEX)}

BlockIdIn == Tokens \cup {PyNone, PyStr(<<>>), LocalId(<<"o">>)}

\* "mit.eecs+6002x+branch+published+version+519665f6223ebd6980884f2b"
EXAMPLE_2 ==
  <<"m","i","t",".","e","e","c","s","+","6","0","0","2","x","+">>
  \o S_branch \o S_plus \o <<"p","u","b","l","i","s","h","e","d">> \o S_plus
  \o S_version \o S_plus \o V_HEX

\* "mit.eecs+6002x+fall_2014+branch+published+version+519665f6223ebd6980884f2b"
EXAMPLE_WITH_RUN ==
  <<"m","i","t",".","e","e","c","s","+","6","0","0","2","x","+",
    "f","a","l","l","_","2","0","1","4","+">>
  \o S_branch \o S_plus \o <<"p","u","b","l","i","s","h","e","d">> \o S_plus
  \o S_version \o S_plus \o V_HEX

SerializedIn ==
  {EXAMPLE_2, EXAMPLE_WITH_RUN, S_version \o S_plus \o V_HEX,
   S_version \o S_plus \o <<"a","b">>, <<>>}

DefinitionIdIn == VersionIn \cup {LocalId(<<"o">>)}

\* strings handed to DefinitionLocator._from_string
DefinitionSerializedIn ==
  {V_HEX \o S_plus \o S_type \o S_plus \o <<"o">>,
   V_UPPER \o S_plus \o S_type \o S_plus \o <<"o">>,
   <<"a","b">> \o S_plus \o S_type \o S_plus \o <<"o">>,
   V_HEX, <<"x","y","z">>, <<>>}

\* "+type+o+block+o"
S_block_tail ==
  S_plus \o S_type \o S_plus \o <<"o">> \o S_plus \o S_block \o S_plus \o <<"o">>

\* strings handed to BlockUsageLocator._from_string
UsageSerializedIn ==
  {<<"o","+","o","+","o">> \o S_block_tail,
   <<"o","+","o","+","o","+">> \o S_version \o S_plus \o V_HEX \o S_block_tail,
   <<"o","+","o","+","o","+">> \o S_version \o S_plus \o <<"a","b">> \o S_block_tail,
   S_version \o S_plus \o <<"a","b">> \o S_block_tail,
   S_version \o S_plus \o V_HEX,
   <<"o","+","o">> \o S_block_tail}

V_CHILD == [i \in 1..Len(V_HEX) |-> "a"]

V_LEAF == [i \in 1..Len(V_HEX) |-> "b"]

\* locators a version history holds
L_root == CourseKey(PyNone, PyNone, PyNone, PyNone, ObjectId(V_HEX), FALSE)

L_child == CourseKey(PyNone, PyNone, PyNone, PyNone, ObjectId(V_CHILD), FALSE)

L_leaf == DefinitionKey(ObjectId(V_LEAF), PyStr(<<"o">>))

L_unversioned ==
  CourseKey(PyStr(<<"o">>), PyStr(<<"o">>), PyStr(<<"o">>), PyNone, PyNone, FALSE)

\* values of tree_dict: None, the empty dict, a history of two levels,
\* histories with an unversioned locator in them, and a cyclic one
TreeDictIn ==
  {PyNone,
   PyDict(<<>>),
   PyDict(ObjectId(V_HEX) :> <<L_child, L_leaf>> @@ ObjectId(V_CHILD) :> <<L_leaf>>),
   PyDict(ObjectId(V_HEX) :> <<L_child, L_unversioned>>),
   PyDict(ObjectId(V_HEX) :> <<L_child>> @@ ObjectId(V_CHILD) :> <<L_unversioned>>),
   PyDict(ObjectId(V_HEX) :> <<L_root>>)}

\* longest string handed to the cleaning utilities
MaxCleanLen == 3

CleanAlphabet == {"a", "_", ":", "%", " "}

CleanIn == UNION {[1..n -> CleanAlphabet] : n \in 0..MaxCleanLen}

\* strings handed to parse_url: inside the grammar, with a trailing, a
\* leading, a doubled and a missing separator, out of order, and empty
UrlIn ==
  {<<"o","+","o","+","o">>,
   <<"o","+","o","+","o","+">>,
   <<"o","+","o","+","o","+">> \o S_branch \o S_plus \o <<"o">>,
   <<"o","+","o","+","o">> \o S_branch \o S_plus \o <<"o">>,
   <<"o","+","o","+","o","+","+">> \o S_branch \o S_plus \o <<"o">>,
   <<"+","o","+","o","+","o">>,
   <<"o","+","o","+","o","\n">>,
   S_branch \o S_plus \o <<"o","+">>,
   S_version \o S_plus \o <<"a","b">> \o S_type \o S_plus \o <<"o">>,
   S_type \o S_plus \o <<"o">> \o S_plus \o S_block \o S_plus \o <<"o">>,
   S_block \o S_plus \o <<"o">> \o S_plus \o S_type \o S_plus \o <<"o">>,
   <<"o","+","o">>,
   EXAMPLE_WITH_RUN,
   <<>>}

\* the last call built the locator the client holds: a method is called on
\* the locator as built, and leaves it as it was
Fresh ==
  op \in {"CourseLocator", "CourseLocator._from_string", "BlockUsageLocator", "AssetLocator",
         "BlockUsageLocator._from_string", "DefinitionLocator",
         "DefinitionLocator._from_string"}

Call(o, a, r, t) ==
  /\ op' = o
  /\ arg' = a
  /\ ret' = r
  /\ text' = t

\* CourseLocator(org, course, run, branch, version_guid, deprecated)
NewCourseLocator ==
  /\ op = "init"
  /\ \E org \in FieldIn, crs \in FieldIn, run \in FieldIn, branch \in FieldIn,
        version_guid \in VersionIn, deprecated \in BOOLEAN :
       LET r == CourseLocator_init(org, crs, run, branch, version_guid, deprecated)
       IN  /\ Call("CourseLocator", <<org, crs, run, branch, version_guid, deprecated>>,
                   r, PyNone)
           /\ obj' = r.val

\* CourseLocator._from_string(serialized)
ParseCourse ==
  /\ op = "init"
  /\ \E s \in SerializedIn :
       LET r == CourseLocator_from_string(s)
       IN  /\ Call("CourseLocator._from_string", <<PyStr(s)>>, r, PyNone)
           /\ obj' = r.val

\* CourseLocator._from_string(x._to_string())
CourseRoundTrip ==
  /\ Fresh /\ IsCourseKey(obj)
  /\ LET t == CourseLocator_to_string(obj)
     IN  Call("course_round_trip", <<>>, CourseLocator_from_string(t), PyStr(t))
  /\ UNCHANGED obj

\* CourseLocator._from_deprecated_string(x._to_deprecated_string())
CourseDeprecatedRoundTrip ==
  /\ Fresh /\ IsCourseKey(obj)
  /\ LET t == CourseLocator_to_deprecated_string(obj)
     IN  IF Raised(t) THEN Call("course_deprecated_round_trip", <<>>, t, PyNone)
         ELSE Call("course_deprecated_round_trip", <<>>,
                   CourseLocator_from_deprecated_string(t.val.v), t.val)
  /\ UNCHANGED obj

\* x.version_agnostic()
VersionAgnostic ==
  /\ Fresh /\ IsCourseKey(obj)
  /\ Call("version_agnostic", <<>>, version_agnostic(obj), PyNone)
  /\ UNCHANGED obj

\* x.course_agnostic()
CourseAgnostic ==
  /\ Fresh /\ IsCourseKey(obj)
  /\ Call("course_agnostic", <<>>, course_agnostic(obj), PyNone)
  /\ UNCHANGED obj

\* x.for_branch(branch)
ForBranch ==
  /\ Fresh /\ IsCourseKey(obj)
  /\ \E branch \in FieldIn :
       Call("for_branch", <<branch>>, for_branch(obj, branch), PyNone)
  /\ UNCHANGED obj

\* x.for_version(version_guid)
ForVersion ==
  /\ Fresh /\ IsCourseKey(obj)
  /\ \E version_guid \in VersionIn :
       Call("for_version", <<version_guid>>, for_version(obj, version_guid), PyNone)
  /\ UNCHANGED obj

\* BlockUsageLocator(x, block_type, block_id, deprecated=...), or AssetLocator(...)
NewBlockUsageLocator ==
  /\ Fresh /\ IsCourseKey(obj)
  /\ \E cls \in {"BlockUsageLocator", "AssetLocator"}, block_type \in FieldIn,
        block_id \in BlockIdIn, deprecated \in BOOLEAN :
       LET r == BlockUsageLocator_init(cls, obj, block_type, block_id, deprecated)
       IN  /\ Call(cls, <<obj, block_type, block_id, deprecated>>, r, PyNone)
           /\ obj' = r.val

\* type(x)._from_string(x._to_string())
UsageRoundTrip ==
  /\ Fresh /\ IsUsageKey(obj)
  /\ LET t == BlockUsageLocator_to_string(obj)
     IN  Call("usage_round_trip", <<>>, BlockUsageLocator_from_string(obj.cls, t), PyStr(t))
  /\ UNCHANGED obj

\* type(x)._from_deprecated_string(x._to_deprecated_string())
UsageDeprecatedRoundTrip ==
  /\ Fresh /\ IsUsageKey(obj)
  /\ LET t == to_deprecated_string(obj)
     IN  Call("usage_deprecated_round_trip", <<>>, from_deprecated_string(obj.cls, t),
              PyStr(t))
  /\ UNCHANGED obj

\* BlockUsageLocator._from_string(serialized)
ParseUsage ==
  /\ op = "init"
  /\ \E s \in UsageSerializedIn :
       LET r == BlockUsageLocator_from_string("BlockUsageLocator", s)
       IN  /\ Call("BlockUsageLocator._from_string", <<PyStr(s)>>, r, PyNone)
           /\ obj' = r.val

\* DefinitionLocator(block_type, definition_id)
NewDefinitionLocator ==
  /\ op = "init"
  /\ \E block_type \in FieldIn, definition_id \in DefinitionIdIn :
       LET r == DefinitionLocator_init(block_type, definition_id)
       IN  /\ Call("DefinitionLocator", <<block_type, definition_id>>, r, PyNone)
           /\ obj' = r.val

\* DefinitionLocator._from_string(serialized)
ParseDefinition ==
  /\ op = "init"
  /\ \E s \in DefinitionSerializedIn :
       LET r == DefinitionLocator_from_string(s)
       IN  /\ Call("DefinitionLocator._from_string", <<PyStr(s)>>, r, PyNone)
           /\ obj' = r.val

\* VersionTree(x, tree_dict), x what the last constructor call left
NewVersionTree ==
  /\ Fresh
  /\ \E tree_dict \in TreeDictIn :
       Call("VersionTree", <<obj, tree_dict>>, VersionTree_init(obj, tree_dict, 1), PyNone)
  /\ UNCHANGED obj

\* x.version_agnostic() on a block-usage locator
UsageVersionAgnostic ==
  /\ Fresh /\ IsUsageKey(obj)
  /\ Call("usage_version_agnostic", <<>>, BlockUsageLocator_version_agnostic(obj), PyNone)
  /\ UNCHANGED obj

\* x.course_agnostic() on a block-usage locator
UsageCourseAgnostic ==
  /\ Fresh /\ IsUsageKey(obj)
  /\ Call("usage_course_agnostic", <<>>, BlockUsageLocator_course_agnostic(obj), PyNone)
  /\ UNCHANGED obj

\* x.for_branch(branch) on a block-usage locator
UsageForBranch ==
  /\ Fresh /\ IsUsageKey(obj)
  /\ \E branch \in FieldIn :
       Call("usage_for_branch", <<branch>>, BlockUsageLocator_for_branch(obj, branch), PyNone)
  /\ UNCHANGED obj

\* x.for_version(version_guid) on a block-usage locator
UsageForVersion ==
  /\ Fresh /\ IsUsageKey(obj)
  /\ \E version_guid \in VersionIn :
       Call("usage_for_version", <<version_guid>>,
            BlockUsageLocator_for_version(obj, version_guid), PyNone)
  /\ UNCHANGED obj

\* f(value), and f applied to what it returned, f one of the cleaning utilities
CleanTwice ==
  /\ op = "init"
  /\ \E name \in CleanNames, value \in CleanIn :
       LET once == clean_by_name(name, value)
       IN  Call("clean_twice", <<name, PyStr(value)>>, Return(PyStr(once)),
                PyStr(clean_by_name(name, once)))
  /\ UNCHANGED obj

\* BlockLocatorBase.parse_url(string)
ParseUrl ==
  /\ op = "init"
  /\ \E string \in UrlIn :
       Call("parse_url", <<PyStr(string)>>, parse_url(string), PyNone)
  /\ UNCHANGED obj

\* the client drops what it holds and starts afresh
Reset ==
  /\ op # "init"
  /\ op' = "init"
  /\ arg' = <<>>
  /\ obj' = PyNone
  /\ text' = PyNone
  /\ ret' = Return(PyNone)

Init ==
  /\ op = "init"
  /\ arg = <<>>
  /\ obj = PyNone
  /\ text = PyNone
  /\ ret = Return(PyNone)

Next ==
  \/ NewCourseLocator
  \/ ParseCourse
  \/ CourseRoundTrip
  \/ CourseDeprecatedRoundTrip
  \/ VersionAgnostic
  \/ CourseAgnostic
  \/ ForBranch
  \/ ForVersion
  \/ NewBlockUsageLocator
  \/ UsageRoundTrip
  \/ UsageDeprecatedRoundTrip
  \/ ParseUsage
  \/ NewDefinitionLocator
  \/ ParseDefinition
  \/ NewVersionTree
  \/ UsageVersionAgnostic
  \/ UsageCourseAgnostic
  \/ UsageForBranch
  \/ UsageForVersion
  \/ CleanTwice
  \/ ParseUrl
  \/ Reset

Spec == Init /\ [][Next]_vars
-----------------------------------------------------------------------------
(* Properties *)

\* a and b agree on the key fields of a course locator
SameCourseFields(a, b) ==
  /\ a.org = b.org
  /\ a.course = b.course
  /\ a.run = b.run
  /\ a.branch = b.branch
  /\ a.version_guid = b.version_guid

\* a and b agree on the key fields of a block-usage locator
SameUsageFields(a, b) ==
  /\ SameCourseFields(a.course_key, b.course_key)
  /\ a.block_type = b.block_type
  /\ a.block_id = b.block_id

\* x carries a version identifier: absent, or the empty string, is none
HasVersion(x) == x.version_guid.ty = "ObjectId"

\* x's version is absent or a version identifier
VersionWellFormed(x) == IsNone(x.version_guid) \/ HasVersion(x)

HasOrgCourseRun(x) == ~IsNone(x.org) /\ ~IsNone(x.course) /\ ~IsNone(x.run)

\* every field of x that is set is a token of the non-legacy grammar
CurrentCharset(x) ==
  \A f \in {x.org, x.course, x.run, x.branch} : IsNone(f) \/ Matches(ALLOWED_ID_RE, f)

\* C1: for every validly constructed non-legacy course locator x, parsing
\* the canonical rendering of x yields a locator equal to x field by field
\* (org, course, run, branch, version).  Stated for the x whose version is
\* absent or a version identifier.
C1_CourseRoundTrip ==
  (op = "course_round_trip" /\ ~obj.deprecated /\ VersionWellFormed(obj))
    => (~Raised(ret) /\ SameCourseFields(ret.val, obj))

\* C2: for every validly constructed block-usage or asset locator x,
\* parsing its canonical rendering yields a locator with the same course
\* key, block type and block id.  Stated for the non-legacy x over a course
\* key that has org, course and run and a version that is absent or a
\* version identifier.
C2_UsageRoundTrip ==
  (/\ op = "usage_round_trip"
   /\ ~obj.deprecated /\ ~obj.course_key.deprecated
   /\ HasOrgCourseRun(obj.course_key) /\ VersionWellFormed(obj.course_key))
    => (~Raised(ret) /\ SameUsageFields(ret.val, obj))

\* x renders to a legacy course string that carries all of x: x is in
\* legacy mode, has a run, and has neither branch nor version
LegacyCourseCarried(x) ==
  /\ x.deprecated
  /\ ~IsNone(x.run)
  /\ IsNone(x.branch)
  /\ IsNone(x.version_guid)

\* x renders to a legacy location that carries all of x: x and its course
\* key are in legacy mode, the course key has neither run nor version, and
\* the block type is a non-empty string without "/"
LegacyUsageCarried(x) ==
  /\ x.deprecated
  /\ x.course_key.deprecated
  /\ IsNone(x.course_key.run)
  /\ IsNone(x.course_key.version_guid)
  /\ x.block_type.ty = "str" /\ x.block_type.v # <<>>
  /\ ~re_search_cls({"/"}, x.block_type.v)

\* C3 (as amended): parsing the legacy rendering of x with the type's
\* legacy parse yields a locator equal to x in all key fields, for every
\* legacy-mode course locator x that has a run and neither branch nor
\* version, and for every legacy-mode block-usage or asset locator x over a
\* legacy-mode course key with neither run nor version, whose block type is
\* a non-empty string without "/".
C3_DeprecatedRoundTrip ==
  /\ (op = "course_deprecated_round_trip" /\ LegacyCourseCarried(obj))
       => (~Raised(ret) /\ SameCourseFields(ret.val, obj))
  /\ (op = "usage_deprecated_round_trip" /\ LegacyUsageCarried(obj))
       => (~Raised(ret) /\ ret.val.cls = obj.cls /\ SameUsageFields(ret.val, obj))

\* the legacy round trip ran on an asset locator whose course key has a branch
C3_Witness ==
  /\ op = "usage_deprecated_round_trip" /\ LegacyUsageCarried(obj)
  /\ obj.cls = "AssetLocator"
  /\ ~IsNone(obj.course_key.branch)

\* C3 (as claimed): parsing the legacy rendering of x with the type's
\* legacy parse yields a locator equal to x in all key fields, for every
\* validly constructed course, block-usage or asset locator x.  Stated for
\* the legacy-mode x that carry no version, a course locator having a run.
C3_DeprecatedRoundTrip_Original ==
  /\ (/\ op = "course_deprecated_round_trip"
      /\ obj.deprecated /\ ~IsNone(obj.run) /\ IsNone(obj.version_guid))
       => (~Raised(ret) /\ SameCourseFields(ret.val, obj))
  /\ (/\ op = "usage_deprecated_round_trip"
      /\ obj.deprecated /\ obj.course_key.deprecated
      /\ IsNone(obj.course_key.version_guid)
      /\ obj.block_type.ty = "str")
       => (~Raised(ret) /\ SameUsageFields(ret.val, obj))

\* C4: every successfully constructed non-legacy course locator has a
\* version identifier, or org, course and run all present; construction
\* with no version and one of org, course, run absent fails with
\* InvalidKeyError; construction with org, course, run and a version
\* succeeds and keeps the four values.
C4_ConstructorInvariant ==
  (op = "CourseLocator" /\ ~arg[6]) =>
    /\ ~Raised(ret) => (HasVersion(ret.val) \/ HasOrgCourseRun(ret.val))
    /\ (~Truthy(arg[5]) /\ (IsNone(arg[1]) \/ IsNone(arg[2]) \/ IsNone(arg[3])))
         => ret.exc = "InvalidKeyError"
    /\ (/\ \A i \in 1..3 : arg[i].ty = "str" /\ Matches(ALLOWED_ID_RE, arg[i])
        /\ IsNone(arg[4]) \/ Matches(ALLOWED_ID_RE, arg[4])
        /\ Truthy(arg[5]) /\ ~Raised(as_object_id(arg[5])))
         => /\ ~Raised(ret)
            /\ ret.val.org = arg[1] /\ ret.val.course = arg[2] /\ ret.val.run = arg[3]
            /\ ret.val.version_guid = as_object_id(arg[5]).val

\* C5 (as amended): whenever for_branch(b) succeeds on a course locator x,
\* the result has branch b, no version, and the org, course and run of x.
C5_ForBranch ==
  (op = "for_branch" /\ ~Raised(ret)) =>
    /\ ret.val.branch = arg[1]
    /\ IsNone(ret.val.version_guid)
    /\ ret.val.org = obj.org /\ ret.val.course = obj.course /\ ret.val.run = obj.run

\* for_branch succeeded on a locator that carries a version, with another branch
C5_Witness ==
  /\ op = "for_branch" /\ ~Raised(ret)
  /\ HasVersion(obj)
  /\ arg[1] # obj.branch

\* C5 (as claimed): whenever for_branch(b) succeeds on x, the result has
\* branch b and every other field, the version included, equal to that of x.
C5_ForBranch_Original ==
  (op = "for_branch" /\ ~Raised(ret)) =>
    /\ ret.val.branch = arg[1]
    /\ ret.val.version_guid = obj.version_guid
    /\ ret.val.org = obj.org /\ ret.val.course = obj.course /\ ret.val.run = obj.run

\* what version_agnostic() leaves behind, x being the locator it was called on
VersionAgnosticOutcome(x, r) ==
  IF HasOrgCourseRun(x) /\ CurrentCharset(x)
  THEN /\ ~Raised(r)
       /\ IsNone(r.val.version_guid)
       /\ r.val.org = x.org /\ r.val.course = x.course
       /\ r.val.run = x.run /\ r.val.branch = x.branch
  ELSE r.exc = "InvalidKeyError"

C7_CourseAgnostic ==
  op = "course_agnostic" =>
    IF HasVersion(obj)
    THEN /\ ~Raised(ret)
         /\ IsNone(ret.val.org) /\ IsNone(ret.val.course)
         /\ IsNone(ret.val.run) /\ IsNone(ret.val.branch)
         /\ ret.val.version_guid = obj.version_guid
    ELSE ret.exc = "InvalidKeyError"

\* C8: parsing org+course+branch+<B>+version+<V>, an org and a course but
\* no run, succeeds and yields org, course, branch B and version V with run
\* absent; stated on the string of the CourseLocator docstring.
C8_ParseWithoutRun ==
  (op = "CourseLocator._from_string" /\ arg[1] = PyStr(EXAMPLE_2)) =>
    /\ ~Raised(ret)
    /\ ret.val.org = PyStr(<<"m","i","t",".","e","e","c","s">>)
    /\ ret.val.course = PyStr(<<"6","0","0","2","x">>)
    /\ IsNone(ret.val.run)
    /\ ret.val.branch = PyStr(<<"p","u","b","l","i","s","h","e","d">>)
    /\ ret.val.version_guid = ObjectId(V_HEX)

\* C9: constructing a block-usage locator whose block id is a LocalId
\* succeeds, in legacy and in non-legacy mode, and the locator's block id is
\* that LocalId.
C9_LocalIdBlockId ==
  (op \in {"BlockUsageLocator", "AssetLocator"} /\ arg[3].ty = "LocalId") =>
    (~Raised(ret) /\ ret.val.block_id = arg[3])

\* C10: constructing a block-usage locator with a block id that is the
\* empty string or None fails with InvalidKeyError and yields no instance.
C10_MissingBlockId ==
  (op \in {"BlockUsageLocator", "AssetLocator"} /\ ~Truthy(arg[3])) =>
    (ret.exc = "InvalidKeyError" /\ IsNone(obj))

\* x is a non-empty string that is not the 24-hex form of a version
Uncoercible(x) == x.ty = "str" /\ x.v # <<>> /\ Raised(as_object_id(x))

\* the version the grammar re takes from string s is such a string
ParsedUncoercible(re, names, group, s) ==
  LET m == re_match_str(re, names, s)
  IN  m.matched /\ Uncoercible(m.groups[group])

\* C11 (as amended): when a version string cannot be coerced to the 24-hex
\* form, non-legacy course locator construction, the course parse, the
\* block-usage parse and the definition parse (of a string that fits the
\* grammar) fail with ValueError, and definition locator construction fails
\* with InvalidKeyError; none of them returns an instance.
C11_UncoercibleVersion ==
  /\ (op = "CourseLocator" /\ ~arg[6] /\ Uncoercible(arg[5]))
       => ret.exc = "ValueError"
  /\ (/\ op \in {"CourseLocator._from_string", "BlockUsageLocator._from_string"}
      /\ ParsedUncoercible(URL_RE, URL_GROUPS, "version_guid", arg[1].v))
       => ret.exc = "ValueError"
  /\ (/\ op = "DefinitionLocator._from_string"
      /\ ParsedUncoercible(DefinitionLocator_URL_RE, DEFINITION_GROUPS, "definition_id",
                           arg[1].v))
       => ret.exc = "ValueError"
  /\ (op = "DefinitionLocator" /\ arg[2].ty = "str" /\ Raised(as_object_id(arg[2])))
       => ret.exc = "InvalidKeyError"

\* a block-usage parse met a version that is not 24 hex digits
C11_Witness ==
  /\ op = "BlockUsageLocator._from_string"
  /\ ParsedUncoercible(URL_RE, URL_GROUPS, "version_guid", arg[1].v)
  /\ Raised(ret)

\* C11 (as claimed): when a supplied or parsed version value cannot be
\* coerced to the 24-hex form, course locator construction, the course and
\* block-usage parse, and definition locator construction and parse fail
\* with InvalidKeyError and with no other kind of error.
C11_UncoercibleVersion_Original ==
  /\ (op = "CourseLocator" /\ ~arg[6] /\ Uncoercible(arg[5]))
       => ret.exc = "InvalidKeyError"
  /\ (/\ op \in {"CourseLocator._from_string", "BlockUsageLocator._from_string"}
      /\ ParsedUncoercible(URL_RE, URL_GROUPS, "version_guid", arg[1].v))
       => ret.exc = "InvalidKeyError"
  /\ (/\ op = "DefinitionLocator._from_string"
      /\ ParsedUncoercible(DefinitionLocator_URL_RE, DEFINITION_GROUPS, "definition_id",
                           arg[1].v))
       => ret.exc = "InvalidKeyError"
  /\ (op = "DefinitionLocator" /\ arg[2].ty = "str" /\ Raised(as_object_id(arg[2])))
       => ret.exc = "InvalidKeyError"

\* C12: constructing a definition locator with a definition id that is
\* neither a LocalId, an ObjectId nor a string raises instead of returning
\* an instance.
C12_DefinitionOtherTypes ==
  (op = "DefinitionLocator" /\ arg[2].ty \notin {"LocalId", "ObjectId", "str"})
    => (Raised(ret) /\ IsNone(obj))

\* the elements of sequence s
Range(s) == {s[i] : i \in 1..Len(s)}

\* the locators that building the tree of the locators of S through M
\* reaches within n levels
RECURSIVE Reached(_, _, _)
Reached(S, M, n) ==
  IF n = 0 \/ IsNone(M) THEN S
  ELSE Reached(S \cup UNION {Range(dict_get(M, version(l))) :
                               l \in {x \in S : IsLocator(x) /\ Truthy(version(x))}},
               M, n - 1)

\* every node of t holds a locator with a version, and the children of
\* each node are the trees of M[version of the node], in M's order
RECURSIVE TreeFollows(_, _)
TreeFollows(t, M) ==
  /\ IsLocator(t.locator) /\ ~IsNone(version(t.locator))
  /\ LET kids == IF IsNone(M) THEN <<>> ELSE dict_get(M, version(t.locator))
     IN  /\ Len(t.children) = Len(kids)
         /\ \A i \in 1..Len(kids) :
              t.children[i].locator = kids[i] /\ TreeFollows(t.children[i], M)

\* C13: VersionTree(L, M) fails if the version of L, or of a descendant
\* reached through M, is absent; when it succeeds every node holds a
\* locator with a version, and the children of each node are the trees
\* built from M[version of the node], in M's order, and none when the
\* version is no key of M or M is not given.
C13_VersionTree ==
  op = "VersionTree" =>
    /\ (\E l \in Reached({arg[1]}, arg[2], RecursionLimit) :
          IsLocator(l) /\ IsNone(version(l)))
         => Raised(ret)
    /\ ~Raised(ret)
         => (ret.val.locator = arg[1] /\ TreeFollows(ret.val, arg[2]))

\* a tree of three levels was built, its root having two children
C13_Witness ==
  /\ op = "VersionTree" /\ ~Raised(ret)
  /\ Len(ret.val.children) = 2
  /\ Len(ret.val.children[1].children) = 1

\* the fields among fs that are set, as text, in order
RECURSIVE SetFields(_)
SetFields(fs) ==
  IF fs = <<>> THEN <<>>
  ELSE (IF Truthy(Head(fs)) THEN <<Format(Head(fs))>> ELSE <<>>) \o SetFields(Tail(fs))

\* one segment for each set field of x: the id of the set fields among
\* org, course and run, then branch+<branch>, then version+<id>, joined by +
SegmentsOfSetFields(x) ==
  LET id == SetFields(<<x.org, x.course, x.run>>)
  IN  Join(S_plus,
           (IF id = <<>> THEN <<>> ELSE <<Join(S_plus, id)>>)
           \o (IF Truthy(x.branch) THEN <<S_branch \o S_plus \o Format(x.branch)>> ELSE <<>>)
           \o (IF Truthy(x.version_guid)
               THEN <<S_version \o S_plus \o Format(x.version_guid)>> ELSE <<>>))

\* C14: the canonical rendering of a course locator is exactly the segments
\* whose fields are set, in the order org+course+run, branch+<branch>,
\* version+<id>, joined by +: a set branch and a set org or course always
\* appear, and no segment is emitted for an absent field.  Stated for the
\* non-legacy locators whose version is absent or a version identifier.
C14_RenderedSegments ==
  (op = "course_round_trip" /\ ~obj.deprecated /\ VersionWellFormed(obj))
    => text = PyStr(SegmentsOfSetFields(obj))

\* what the course-locator operation named by the call does on course key c
CourseOperation(o, a, c) ==
  CASE o = "usage_version_agnostic" -> version_agnostic(c)
    [] o = "usage_course_agnostic" -> course_agnostic(c)
    [] o = "usage_for_branch" -> for_branch(c, a[1])
    [] o = "usage_for_version" -> for_version(c, a[1])

\* C15: on every block-usage locator x, legacy or not, each of for_branch,
\* for_version, version_agnostic and course_agnostic succeeds exactly when
\* the course-locator operation succeeds on x's course key, and the result
\* has that operation's course key and the block type and block id of x.
C15_UsageDerive ==
  op \in {"usage_version_agnostic", "usage_course_agnostic", "usage_for_branch",
          "usage_for_version"} =>
    LET c == CourseOperation(op, arg, obj.course_key)
    IN  /\ Raised(ret) <=> Raised(c)
        /\ ~Raised(ret) =>
             /\ ret.val.course_key = c.val
             /\ ret.val.block_type = obj.block_type
             /\ ret.val.block_id = obj.block_id

\* s has two underscores next to each other
HasUnderscoreRun(s) == \E i \in 1..(Len(s) - 1) : s[i] = "_" /\ s[i + 1] = "_"

\* C16 (as amended): each cleaning utility f is idempotent, f(f(v)) = f(v)
\* for every string v; f(v) = v when v holds no character that f replaces
\* and, for the three utilities that collapse underscores (all but
\* clean_keeping_underscores), no two adjacent underscores.
C16_Clean ==
  op = "clean_twice" =>
    /\ text = ret.val
    /\ (/\ ~re_search_cls(invalid_by_name(arg[1]), arg[2].v)
        /\ arg[1] = "clean_keeping_underscores" \/ ~HasUnderscoreRun(arg[2].v))
         => ret.val = arg[2]

\* a utility replaced a character and collapsed the underscores around it
C16_Witness ==
  /\ op = "clean_twice"
  /\ re_search_cls(invalid_by_name(arg[1]), arg[2].v)
  /\ Len(ret.val.v) < Len(arg[2].v)

\* C16 (as claimed): each cleaning utility f is idempotent and is the
\* identity on every v that holds no character that f replaces.
C16_Clean_Original ==
  op = "clean_twice" =>
    /\ text = ret.val
    /\ ~re_search_cls(invalid_by_name(arg[1]), arg[2].v) => ret.val = arg[2]

\* the segments of the groups g that are set, in the fixed order, every two
\* adjacent ones separated by one +, with no separator before or after
CanonicalSegments(g) ==
  LET seg(prefix, name) ==
        IF IsNone(g[name]) THEN <<>> ELSE <<prefix \o S_plus \o g[name].v>>
  IN  Join(S_plus,
           (IF IsNone(g["org"]) THEN <<>>
            ELSE <<Join(S_plus, <<g["org"].v, g["course"].v, g["run"].v>>)>>)
           \o seg(S_branch, "branch") \o seg(S_version, "version_guid")
           \o seg(S_type, "block_type") \o seg(S_block, "block_id"))

\* C17: parse_url accepts a string only if it is a subset of the five
\* segments (org+course+run, branch+<b>, version+<hex>, type+<t>,
\* block+<id>) in that order, every two adjacent segments separated by
\* exactly one +, with no leading or trailing separator; any other string
\* fails with InvalidKeyError and yields no fields.
C17_CanonicalGrammar ==
  op = "parse_url" =>
    IF Raised(ret) THEN ret.exc = "InvalidKeyError"
    ELSE arg[1].v = CanonicalSegments(ret.groups)

====
